---- MODULE Spec2Model ----
(***************************************************************************)
(* A model of laz2dem's point ingestion (src/laz2dem/src/read.rs) and of   *)
(* its terrain shading (src/laz2dem/src/shading.rs).                       *)
(*                                                                         *)
(* Spec       read(): the tile grid, the index query and the parallel      *)
(*            file workers appending to the per-tile, mutex-guarded        *)
(*            point buffers.                                               *)
(* SpecHill   compute_hillshade(): the loop over the interior cells, the   *)
(*            slope and aspect of each, and the pixel each is written to.  *)
(* SpecShade  shade(): one pixel from a list of shading definitions.       *)
(***************************************************************************)
EXTENDS Integers, Sequences, FiniteSets, TLC

\* ------------------------------------------------------------------ bounds
NumWorkers == 2          \* threads of the rayon pool
NumFiles == 2            \* records of the laz_index table
MaxBuffer == 1           \* options.buffer, in pixels
MaxPixelsPerMeter == 2   \* options.pixels_per_meter()

\* The native extent of a (super)tile, in metres: tile.bounds(tile_size << offset).
TileMeters == 4

Workers == 1..NumWorkers
NoWorker == 0

\* ----------------------------------------------------------- the read state
VARIABLES
    options,      \* [bbox, buffer, pixels_per_meter, source]
    files,        \* the archive: file -> [box, openable, points]
    pc,           \* where read() is: "build","resolve","par","returned","panicked"
    tile_metas,   \* Seq of [tile, bbox]; the points and their Mutex are below
    points,       \* tile index -> Seq of PointWithHeight (the Vec inside the Mutex)
    lock,         \* tile index -> the worker holding the Mutex, or NoWorker
    bbox_8353,    \* options.bbox in the archive's CRS
    queue,        \* matched files no worker has taken yet
    panic,        \* a worker's closure has panicked
    wpc,          \* worker -> "idle","read","lock","push","store","panicked"
    wfile,        \* worker -> the file it reads
    widx,         \* worker -> the index of the record it is at (reader.points())
    wcur,         \* worker -> the PointWithHeight built from that record
    wtile,        \* worker -> i of `for (i, tile_meta) in tile_metas.iter().enumerate()`
    wlen          \* worker -> the Vec's len as Vec::push read it

readVars == <<options, files, pc, tile_metas, points, lock, bbox_8353, queue, panic,
              wpc, wfile, widx, wcur, wtile, wlen>>

\* ------------------------------------------------- compute_hillshade's state
VARIABLES
    elevation,    \* the row-major grid: index (from 0) -> f64
    z_factor,
    rows,
    cols,
    hpc,          \* "idle", "loop", "returned"
    hy,           \* y of `for y in 1..rows - 1`
    hx,           \* x of `for x in 1..cols - 1`
    hillshade,    \* the RgbImage: <<x, y>> -> pixel
    written       \* the pixels written so far, in order (a history of get_pixel_mut)

hillVars == <<elevation, z_factor, rows, cols, hpc, hy, hx, hillshade, written>>

\* ------------------------------------------------------------ shade's state
VARIABLES
    aspect_rad,
    slope_rad,
    shadings,     \* the list of Shading definitions
    contrast,
    brightness,
    spc,          \* "call", "done"
    pixel,        \* what shade returned: <<r, g, b>>
    whole         \* what shade returned for the list before it was split

shadeVars == <<aspect_rad, slope_rad, shadings, contrast, brightness, spc, pixel, whole>>

vars == <<readVars, hillVars, shadeVars>>

notRead == <<hillVars, shadeVars>>
notHill == <<readVars, shadeVars>>
notShade == <<readVars, hillVars>>

\* ------------------------------------------------------------- arithmetic
RECURSIVE Gcd(_, _)
Gcd(a, b) == IF b = 0 THEN a ELSE Gcd(b, a % b)

Lcm(a, b) == (a * b) \div Gcd(a, b)

RECURSIVE LcmUpTo(_)
LcmUpTo(n) == IF n <= 1 THEN 1 ELSE Lcm(n, LcmUpTo(n - 1))

\* Lengths are f64 metres in the code. Here they are integers counting 1/UnitsPerMeter
\* of a metre, fine enough that buffer / pixels_per_meter is exact for every scale
\* drawn and that a quarter of a metre is a whole number of units.
UnitsPerMeter == 4 * LcmUpTo(MaxPixelsPerMeter)

M(m) == m * UnitsPerMeter

\* ------------------------------------------------------------------- BBox
BBox(x0, y0, x1, y1) == [min_x |-> x0, min_y |-> y0, max_x |-> x1, max_y |-> y1]

\* BBox::contains
Contains(b, x, y) == x >= b.min_x /\ x <= b.max_x /\ y >= b.min_y /\ y <= b.max_y

\* BBox::to_extended
ToExtended(b, m) == BBox(b.min_x - m, b.min_y - m, b.max_x + m, b.max_y + m)

\* The index query's WHERE clause: the stored box `s` against the query box `q`.
Overlaps(s, q) ==
    s.max_x >= q.min_x /\ s.min_x <= q.max_x /\ s.max_y >= q.min_y /\ s.min_y <= q.max_y

\* ------------------------------------------------------------------ tiles
\* Tile::bounds
Bounds(tile) ==
    BBox(M(tile.tx * TileMeters), M(tile.ty * TileMeters),
         M((tile.tx + 1) * TileMeters), M((tile.ty + 1) * TileMeters))

RECURSIVE Range(_, _)
Range(a, b) == IF a > b THEN <<>> ELSE <<a>> \o Range(a + 1, b)

RECURSIVE Flatten(_)
Flatten(ss) == IF ss = <<>> THEN <<>> ELSE Head(ss) \o Flatten(Tail(ss))

\* bbox_covered_tiles: the tiles a box touches, row by row
BBoxCoveredTiles(b) ==
    LET txs == Range(b.min_x \div M(TileMeters), b.max_x \div M(TileMeters))
        tys == Range(b.min_y \div M(TileMeters), b.max_y \div M(TileMeters))
    IN  Flatten([j \in 1..Len(tys) |->
                    [i \in 1..Len(txs) |-> [tx |-> txs[i], ty |-> tys[j]]]])

BufferMMutant(o) == o.buffer * UnitsPerMeter * o.pixels_per_meter

\* let buffer_m = options.buffer as f64 / options.pixels_per_meter();
BufferM(o) == (o.buffer * UnitsPerMeter) \div o.pixels_per_meter

\* The TileMeta of one tile (its points and their Mutex are `points` and `lock`).
TileMeta(o, tile) == [tile |-> tile, bbox |-> ToExtended(Bounds(tile), BufferM(o))]

\* ------------------------------------------------------------- projection
\* EPSG:8353 -> EPSG:3857 is not the identity and does not map boxes to boxes. It
\* is modelled by a shear, which has both properties and is exact on integers.
Convert(X, Y) == [x |-> X, y |-> Y - X]

\* EPSG:3857 -> EPSG:8353, the inverse
ConvertBack(x, y) == [x |-> x, y |-> y + x]

\* transform_bounds: the envelope, in the archive's CRS, of the box's densified edge
TransformBounds(b) ==
    LET edge == {p \in (b.min_x..b.max_x) \X (b.min_y..b.max_y) :
                    p[1] \in {b.min_x, b.max_x} \/ p[2] \in {b.min_y, b.max_y}}
        img == {ConvertBack(p[1], p[2]) : p \in edge}
        xs == {q.x : q \in img}
        ys == {q.y : q \in img}
    IN  BBox(CHOOSE v \in xs : \A u \in xs : v <= u,
             CHOOSE v \in ys : \A u \in ys : v <= u,
             CHOOSE v \in xs : \A u \in xs : v >= u,
             CHOOSE v \in ys : \A u \in ys : v >= u)

\* ------------------------------------------------------------- the inputs
\* A record of a file: its position in the archive's CRS (in quarters of a metre,
\* off every edge of every box of the model), its height, its classification, and
\* whether the reader can decode it.
Rec(X, Y, z, class, ok) ==
    [x |-> X * (UnitsPerMeter \div 4), y |-> Y * (UnitsPerMeter \div 4),
     z |-> z, class |-> class, ok |-> ok]

\* In the working CRS (metres), with tile 0 = [0, 4] x [0, 4] and tile 1 = [4, 8] x [0, 4]:
NearTile0 == Rec(17, 26, 10, "ground", TRUE)     \* (4.25, 2.25): in tile 1, near tile 0
InTile0 == Rec(9, 18, 20, "ground", TRUE)        \* (2.25, 2.25): in tile 0
BelowExtent == Rec(17, 18, 30, "ground", TRUE)   \* (4.25, 0.25): as the first, below the extents
Vegetation == Rec(17, 26, 40, "vegetation", TRUE)
Undecodable == Rec(17, 26, 50, "ground", FALSE)  \* the reader fails on it

PointChoices == {NearTile0, InTile0, BelowExtent, Vegetation, Undecodable}

ExtentChoices == { BBox(M(1), M(1), M(3), M(3)), BBox(M(1), M(1), M(7), M(3)) }

\* The box the index stores for a file: one every extent's query meets, one none does.
NearBox == BBox(M(0), M(0), M(8), M(12))
FarBox == BBox(M(100), M(100), M(108), M(112))

\* The files an archive is made of.
FileCatalogue ==
    << [box |-> FarBox, openable |-> FALSE, points |-> <<>>],
       [box |-> NearBox, openable |-> FALSE, points |-> <<>>],
       [box |-> NearBox, openable |-> TRUE, points |-> <<NearTile0>>],
       [box |-> NearBox, openable |-> TRUE, points |-> <<InTile0, NearTile0>>],
       [box |-> NearBox, openable |-> TRUE, points |-> <<Vegetation, BelowExtent>>],
       [box |-> NearBox, openable |-> TRUE, points |-> <<NearTile0, Undecodable>>] >>

\* Every archive of k files. The order of the index's rows decides nothing (a
\* worker takes whichever file is left), so one order stands for all of them.
Archives(k) ==
    {[i \in 1..k |-> FileCatalogue[c[i]]] :
        c \in {d \in [1..k -> 1..Len(FileCatalogue)] :
                    \A i \in 1..k - 1 : d[i] <= d[i + 1]}}

\* Source::LazIndexDb(path) or any other source
Sources == {"LazIndexDb", "Other"}

Options ==
    [bbox : ExtentChoices, buffer : 0..MaxBuffer,
     pixels_per_meter : 1..MaxPixelsPerMeter, source : Sources]

NoPoint == [position |-> <<0, 0>>, height |-> 0]

\* -------------------------------------------------------------------- Init
ReadInit ==
    /\ options \in Options
    /\ files \in Archives(NumFiles)
    /\ pc = "build"
    /\ tile_metas = <<>>
    /\ points = <<>>
    /\ lock = <<>>
    /\ bbox_8353 = BBox(0, 0, 0, 0)
    /\ queue = {}
    /\ panic = FALSE
    /\ wpc = [w \in Workers |-> "idle"]
    /\ wfile = [w \in Workers |-> 0]
    /\ widx = [w \in Workers |-> 0]
    /\ wcur = [w \in Workers |-> NoPoint]
    /\ wtile = [w \in Workers |-> 0]
    /\ wlen = [w \in Workers |-> 0]

workerVars == <<wpc, wfile, widx, wcur, wtile, wlen>>

\* ----------------------------------------------------------- read(): main
\* lines 15-28: the tile grid
BuildTiles ==
    /\ UNCHANGED notRead
    /\ pc = "build"
    /\ LET tiles == BBoxCoveredTiles(options.bbox)
       IN  /\ tile_metas' = [i \in 1..Len(tiles) |-> TileMeta(options, tiles[i])]
           /\ points' = [i \in 1..Len(tiles) |-> <<>>]
           /\ lock' = [i \in 1..Len(tiles) |-> NoWorker]
    /\ pc' = "resolve"
    /\ UNCHANGED <<options, files, bbox_8353, queue, panic, workerVars>>

\* lines 30-32: any source but the index returns the empty grid
ReturnNoSource ==
    /\ UNCHANGED notRead
    /\ pc = "resolve"
    /\ options.source # "LazIndexDb"
    /\ pc' = "returned"
    /\ UNCHANGED <<options, files, tile_metas, points, lock, bbox_8353, queue, panic,
                   workerVars>>

\* The files the query of lines 50-56 selects.
Matched(q) == {f \in 1..Len(files) : Overlaps(files[f].box, q)}

\* lines 34-58: the query box and the matched files
Resolve ==
    /\ UNCHANGED notRead
    /\ pc = "resolve"
    /\ options.source = "LazIndexDb"
    /\ bbox_8353' = TransformBounds(options.bbox)
    /\ queue' = Matched(bbox_8353')
    /\ pc' = "par"
    /\ UNCHANGED <<options, files, tile_metas, points, lock, panic, workerVars>>

\* line 109: every file was read and no closure panicked
Return ==
    /\ UNCHANGED notRead
    /\ pc = "par"
    /\ queue = {}
    /\ ~panic
    /\ \A w \in Workers : wpc[w] = "idle"
    /\ pc' = "returned"
    /\ UNCHANGED <<options, files, tile_metas, points, lock, bbox_8353, queue, panic,
                   workerVars>>

\* for_each_init resumes a closure's panic once no closure is running; the files
\* nobody took are dropped with the queue.
Propagate ==
    /\ UNCHANGED notRead
    /\ pc = "par"
    /\ panic
    /\ \A w \in Workers : wpc[w] \in {"idle", "panicked"}
    /\ pc' = "panicked"
    /\ UNCHANGED <<options, files, tile_metas, points, lock, bbox_8353, queue, panic,
                   workerVars>>

\* -------------------------------------------------------- read(): a worker
\* The record a worker is at.
Record(w) == files[wfile[w]].points[widx[w]]

\* lines 73-85: the three filters a decoded record passes before the tile loop
Accepts(r) ==
    /\ r.class = "ground"
    /\ Contains(bbox_8353, r.x, r.y)
    /\ LET p == Convert(r.x, r.y) IN Contains(options.bbox, p.x, p.y)

\* lines 98-101: PointWithHeight { position: Point2::new(x, y), height: point.z }
PointWithHeight(r) ==
    LET p == Convert(r.x, r.y) IN [position |-> <<p.x, p.y>>, height |-> r.z]

DecodeFailedMutant(w) ==
    [wpc |-> "read", panic |-> panic, widx |-> widx[w] + 1]

\* line 71: point.unwrap() on a record the reader cannot decode panics
DecodeFailed(w) ==
    [wpc |-> "panicked", panic |-> TRUE, widx |-> widx[w]]

TileAcceptsMutant(tm, p) == TRUE

\* line 88: tile_meta.bbox.contains(x, y)
TileAccepts(tm, p) == Contains(tm.bbox, p.position[1], p.position[2])

LockFreeMutant(l, i) == TRUE

\* Mutex::lock blocks while another thread holds the guard
LockFree(l, i) == l[i] = NoWorker

ReleaseMutant(l, i) == l

\* the MutexGuard of line 96 is a temporary: it is dropped as the statement ends
Release(l, i) == [l EXCEPT ![i] = NoWorker]

AfterPushMutant(i) == Len(tile_metas) + 1

\* the loop of line 87 goes on to the next tile after a push
AfterPush(i) == i + 1

\* lines 87-90: the first tile from i on whose bbox holds p, past the last if none
RECURSIVE NextAccepting(_, _)
NextAccepting(i, p) ==
    IF i > Len(tile_metas) \/ TileAccepts(tile_metas[i], p) THEN i
    ELSE NextAccepting(i + 1, p)

\* lines 60-68: a pool thread takes a file nobody has taken (files.par_iter())
\* and opens it: Reader::from_path(file).unwrap()
TakeFile(w) ==
    /\ UNCHANGED notRead
    /\ pc = "par"
    /\ wpc[w] = "idle"
    /\ \E f \in queue :
        /\ queue' = queue \ {f}
        /\ IF files[f].openable
           THEN /\ wpc' = [wpc EXCEPT ![w] = "read"]
                /\ wfile' = [wfile EXCEPT ![w] = f]
                /\ widx' = [widx EXCEPT ![w] = 1]
                /\ UNCHANGED panic
           ELSE /\ wpc' = [wpc EXCEPT ![w] = "panicked"]
                /\ wfile' = [wfile EXCEPT ![w] = f]
                /\ panic' = TRUE
                /\ UNCHANGED widx
    /\ UNCHANGED <<options, files, pc, tile_metas, points, lock, bbox_8353,
                   wcur, wtile, wlen>>

\* lines 70-90: the next record of the file, decoded and filtered, and the tile
\* loop up to the first tile whose buffer the point goes to
NextPoint(w) ==
    /\ UNCHANGED notRead
    /\ wpc[w] = "read"
    /\ IF widx[w] > Len(files[wfile[w]].points)
       THEN \* line 105: DONE; the closure returns and its locals are gone
            /\ wpc' = [wpc EXCEPT ![w] = "idle"]
            /\ wfile' = [wfile EXCEPT ![w] = 0]
            /\ widx' = [widx EXCEPT ![w] = 0]
            /\ wcur' = [wcur EXCEPT ![w] = NoPoint]
            /\ wtile' = [wtile EXCEPT ![w] = 0]
            /\ wlen' = [wlen EXCEPT ![w] = 0]
            /\ UNCHANGED panic
       ELSE IF ~Record(w).ok
       THEN /\ wpc' = [wpc EXCEPT ![w] = DecodeFailed(w).wpc]
            /\ panic' = DecodeFailed(w).panic
            /\ widx' = [widx EXCEPT ![w] = DecodeFailed(w).widx]
            /\ UNCHANGED <<wfile, wcur, wtile, wlen>>
       ELSE IF /\ Accepts(Record(w))
               /\ NextAccepting(1, PointWithHeight(Record(w))) <= Len(tile_metas)
       THEN /\ wcur' = [wcur EXCEPT ![w] = PointWithHeight(Record(w))]
            /\ wtile' = [wtile EXCEPT ![w] = NextAccepting(1, wcur'[w])]
            /\ wpc' = [wpc EXCEPT ![w] = "lock"]
            /\ UNCHANGED <<wfile, widx, wlen, panic>>
       ELSE /\ widx' = [widx EXCEPT ![w] = widx[w] + 1]
            /\ UNCHANGED <<wpc, wfile, wcur, wtile, wlen, panic>>
    /\ UNCHANGED <<options, files, pc, tile_metas, points, lock, bbox_8353, queue>>

\* lines 92-97: tile_metas.get(i).unwrap().points.lock().unwrap()
Lock(w) ==
    /\ UNCHANGED notRead
    /\ wpc[w] = "lock"
    /\ LockFree(lock, wtile[w])
    /\ lock' = [lock EXCEPT ![wtile[w]] = w]
    /\ wpc' = [wpc EXCEPT ![w] = "push"]
    /\ UNCHANGED <<options, files, pc, tile_metas, points, bbox_8353, queue, panic,
                   wfile, widx, wcur, wtile, wlen>>

\* line 98: Vec::push reads the Vec's len ...
Push(w) ==
    /\ UNCHANGED notRead
    /\ wpc[w] = "push"
    /\ wlen' = [wlen EXCEPT ![w] = Len(points[wtile[w]])]
    /\ wpc' = [wpc EXCEPT ![w] = "store"]
    /\ UNCHANGED <<options, files, pc, tile_metas, points, lock, bbox_8353, queue,
                   panic, wfile, widx, wcur, wtile>>

\* ... and writes the element at that index and the len after it. The statement
\* ends (line 101), the guard is dropped, and the tile loop goes on to the next
\* tile whose bbox holds the point, or to the next record.
Store(w) ==
    /\ UNCHANGED notRead
    /\ wpc[w] = "store"
    /\ points' = [points EXCEPT ![wtile[w]] =
                    Append(SubSeq(points[wtile[w]], 1, wlen[w]), wcur[w])]
    /\ lock' = Release(lock, wtile[w])
    /\ wtile' = [wtile EXCEPT ![w] = NextAccepting(AfterPush(wtile[w]), wcur[w])]
    /\ IF wtile'[w] > Len(tile_metas)
       THEN /\ widx' = [widx EXCEPT ![w] = widx[w] + 1]
            /\ wpc' = [wpc EXCEPT ![w] = "read"]
       ELSE /\ wpc' = [wpc EXCEPT ![w] = "lock"]
            /\ UNCHANGED widx
    /\ UNCHANGED <<options, files, pc, tile_metas, bbox_8353, queue, panic,
                   wfile, wcur, wlen>>

Next ==
    \/ BuildTiles
    \/ ReturnNoSource
    \/ Resolve
    \/ Return
    \/ Propagate
    \/ \E w \in Workers : TakeFile(w)
    \/ \E w \in Workers : NextPoint(w)
    \/ \E w \in Workers : Lock(w)
    \/ \E w \in Workers : Push(w)
    \/ \E w \in Workers : Store(w)

\* =========================================================== shading.rs
\* ------------------------------------------------------------------ f64
\* The f64 values of compute_slope_and_aspect: NaN, or a sign and a magnitude
\* counted in eighths. Elevations and z_factor are whole numbers here, so every
\* sum, product and division by 8.0 the function does is exact in f64, and the
\* sign of a zero is what IEEE 754 makes it.
F(neg, e8) == [nan |-> FALSE, neg |-> neg, e8 |-> e8]
NaN == [nan |-> TRUE, neg |-> FALSE, e8 |-> 0]

FromInt(n) == IF n < 0 THEN F(TRUE, 0 - 8 * n) ELSE F(FALSE, 8 * n)

\* The signed number of eighths.
Signed(a) == IF a.neg THEN 0 - a.e8 ELSE a.e8

\* unary minus
FNeg(a) == IF a.nan THEN NaN ELSE F(~a.neg, a.e8)

\* a + b: an exact zero sum is +0.0 unless both operands are -0.0
FAdd(a, b) ==
    IF a.nan \/ b.nan THEN NaN
    ELSE LET n == Signed(a) + Signed(b)
         IN  IF n > 0 THEN F(FALSE, n)
             ELSE IF n < 0 THEN F(TRUE, 0 - n)
             ELSE F(a.neg /\ b.neg, 0)

FSub(a, b) == FAdd(a, FNeg(b))

\* a * b, exact as one of the two is a whole number
FMul(a, b) ==
    IF a.nan \/ b.nan THEN NaN ELSE F(a.neg # b.neg, (a.e8 * b.e8) \div 8)

\* a / 8.0, exact as a is a whole number
FDiv8(a) == IF a.nan THEN NaN ELSE F(a.neg, a.e8 \div 8)

Two == FromInt(2)

\* An angle in sixteenths of a turn: an even count is that multiple of pi/8, an
\* odd count an angle strictly between its two neighbours.
Angle(neg, s16) == [nan |-> FALSE, neg |-> neg, s16 |-> s16]
AngleNaN == [nan |-> TRUE, neg |-> FALSE, s16 |-> 0]

\* 0.0 as f64
AngleZero == Angle(FALSE, 0)

\* dz_dx.hypot(dz_dy).atan(): in [0, pi/2), and 0 only for a zero gradient
AtanHypot(dx, dy) ==
    IF dx.nan \/ dy.nan THEN AngleNaN
    ELSE LET h2 == dx.e8 * dx.e8 + dy.e8 * dy.e8
         IN  IF h2 = 0 THEN Angle(FALSE, 0)
             ELSE IF h2 < 64 THEN Angle(FALSE, 1)
             ELSE IF h2 = 64 THEN Angle(FALSE, 2)
             ELSE Angle(FALSE, 3)

\* y.atan2(x) of IEEE 754: the sign of the result is y's; a zero y gives 0 for
\* x of sign + and pi for x of sign -, zeros included.
Atan2(y, x) ==
    IF y.nan \/ x.nan THEN AngleNaN
    ELSE LET s == IF y.e8 = 0 THEN (IF x.neg THEN 8 ELSE 0)
                  ELSE IF x.e8 = 0 THEN 4
                  ELSE IF ~x.neg
                       THEN (IF y.e8 < x.e8 THEN 1 ELSE IF y.e8 = x.e8 THEN 2 ELSE 3)
                       ELSE (IF y.e8 < x.e8 THEN 7 ELSE IF y.e8 = x.e8 THEN 6 ELSE 5)
         IN  Angle(y.neg, s)

\* aspect_rad < 0.0 (false of -0.0 and of NaN)
AngleNegative(a) == ~a.nan /\ a.neg /\ a.s16 > 0

\* aspect_rad += TAU, for a negative aspect_rad
AddTau(a) == Angle(FALSE, 16 - a.s16)

\* line 68: aspect_rad.is_nan() || slope_rad.is_nan()
IsNanGuard(aspect, slope) == aspect.nan \/ slope.nan

\* lines 31-74
ComputeSlopeAndAspect(elev, zf, ncols, x, y) ==
    LET off == y * ncols
        z1 == elev[off - ncols + x - 1]
        z2 == elev[off - ncols + x]
        z3 == elev[off - ncols + x + 1]
        z4 == elev[off + x - 1]
        z6 == elev[off + x + 1]
        z7 == elev[off + ncols + x - 1]
        z8 == elev[off + ncols + x]
        z9 == elev[off + ncols + x + 1]
        \* (-z1 + z3 - 2.0 * z4 + 2.0 * z6 - z7 + z9) / 8.0
        dx0 == FDiv8(FAdd(FSub(FAdd(FSub(FAdd(FNeg(z1), z3), FMul(Two, z4)),
                                    FMul(Two, z6)), z7), z9))
        \* (-z1 - 2.0 * z2 - z3 + z7 + 2.0 * z8 + z9) / 8.0
        dy0 == FDiv8(FAdd(FAdd(FAdd(FSub(FSub(FNeg(z1), FMul(Two, z2)), z3), z7),
                               FMul(Two, z8)), z9))
        dz_dx == FMul(dx0, zf)
        dz_dy == FMul(dy0, zf)
        slope0 == AtanHypot(dz_dx, dz_dy)
        aspect0 == Atan2(dz_dy, FNeg(dz_dx))
        aspect1 == IF AngleNegative(aspect0) THEN AddTau(aspect0) ELSE aspect0
    IN  IF IsNanGuard(aspect1, slope0)
        THEN [slope_rad |-> AngleZero, aspect_rad |-> AngleZero]
        ELSE [slope_rad |-> slope0, aspect_rad |-> aspect1]

\* ------------------------------------------------------ compute_hillshade
MaxSide == 4     \* rows and cols are 3..MaxSide

\* RgbImage::new: every pixel zeroed
Black == <<0, 0, 0>>

\* The caller's closure F: what it makes of (aspect_rad, slope_rad) is its own
\* business, so the pixel written records the two arguments.
ComputeRgb(aspect, slope) == <<"rgb", aspect, slope>>

\* line 23: the row of the image that cell row y is written to
Flip(nrows, y) == nrows - y

\* The grids drawn: the planes 10 + a x + b y, and the flat grid with one NaN cell.
Plane(nrows, ncols, a, b) ==
    [i \in 0..(nrows * ncols - 1) |-> FromInt(10 + a * (i % ncols) + b * (i \div ncols))]

Grids(nrows, ncols) ==
    {Plane(nrows, ncols, a, b) : a \in -1..1, b \in -1..1}
    \cup {[Plane(nrows, ncols, 0, 0) EXCEPT ![k] = NaN] : k \in 0..(nrows * ncols - 1)}

HillIdle ==
    /\ elevation = <<>>
    /\ z_factor = FromInt(1)
    /\ rows = 0
    /\ cols = 0
    /\ hpc = "idle"
    /\ hy = 0
    /\ hx = 0
    /\ hillshade = <<>>
    /\ written = <<>>

ReadIdle ==
    /\ options = [bbox |-> BBox(0, 0, 0, 0), buffer |-> 0, pixels_per_meter |-> 1,
                  source |-> "Other"]
    /\ files = <<>>
    /\ pc = "idle"
    /\ tile_metas = <<>>
    /\ points = <<>>
    /\ lock = <<>>
    /\ bbox_8353 = BBox(0, 0, 0, 0)
    /\ queue = {}
    /\ panic = FALSE
    /\ wpc = [w \in Workers |-> "idle"]
    /\ wfile = [w \in Workers |-> 0]
    /\ widx = [w \in Workers |-> 0]
    /\ wcur = [w \in Workers |-> NoPoint]
    /\ wtile = [w \in Workers |-> 0]
    /\ wlen = [w \in Workers |-> 0]

\* compute_hillshade is called: line 17, and the loops are entered
HillInit ==
    /\ rows \in 3..MaxSide
    /\ cols \in 3..MaxSide
    /\ elevation \in Grids(rows, cols)
    /\ z_factor \in {FromInt(1), FromInt(2)}
    /\ hpc = "loop"
    /\ hy = 1
    /\ hx = 1
    /\ hillshade = [p \in (0..cols - 1) \X (0..rows - 1) |-> Black]
    /\ written = <<>>

\* lines 20-25: one cell
HillCell ==
    /\ UNCHANGED notHill
    /\ hpc = "loop"
    /\ hy < rows - 1
    /\ LET sa == ComputeSlopeAndAspect(elevation, z_factor, cols, hx, hy)
           at == <<hx, Flip(rows, hy)>>
       IN  /\ at \in DOMAIN hillshade      \* get_pixel_mut panics out of bounds
           /\ hillshade' = [hillshade EXCEPT ![at] = ComputeRgb(sa.aspect_rad, sa.slope_rad)]
           /\ written' = Append(written, at)
    /\ IF hx + 1 < cols - 1
       THEN hx' = hx + 1 /\ hy' = hy
       ELSE hx' = 1 /\ hy' = hy + 1
    /\ UNCHANGED <<elevation, z_factor, rows, cols, hpc>>

\* line 28
HillReturn ==
    /\ UNCHANGED notHill
    /\ hpc = "loop"
    /\ hy >= rows - 1
    /\ hpc' = "returned"
    /\ UNCHANGED <<elevation, z_factor, rows, cols, hy, hx, hillshade, written>>

HillNext ==
    \/ HillCell
    \/ HillReturn

\* ------------------------------------------------------------------ shade
\* The f64 values of shade are modelled by exact fractions [n, d], d > 0, in lowest
\* terms: the arithmetic is f64's without its rounding.
Abs(n) == IF n < 0 THEN 0 - n ELSE n

Q(n, d) ==
    LET g == Gcd(Abs(n), Abs(d))
    IN  IF d < 0 THEN [n |-> (0 - n) \div g, d |-> (0 - d) \div g]
        ELSE [n |-> n \div g, d |-> d \div g]

QInt(n) == [n |-> n, d |-> 1]

QAdd(a, b) ==
    LET g == Gcd(a.d, b.d)
    IN  Q(a.n * (b.d \div g) + b.n * (a.d \div g), (a.d \div g) * b.d)

QNeg(a) == [n |-> 0 - a.n, d |-> a.d]

QSub(a, b) == QAdd(a, QNeg(b))

QMul(a, b) ==
    LET g1 == Gcd(Abs(a.n), b.d)
        g2 == Gcd(Abs(b.n), a.d)
    IN  IF a.n = 0 \/ b.n = 0 THEN QInt(0)
        ELSE Q((a.n \div g1) * (b.n \div g2), (a.d \div g2) * (b.d \div g1))

\* a / b, for b # 0
QDiv(a, b) == QMul(a, Q(b.d, b.n))

QLt(a, b) == QSub(a, b).n < 0

QAbs(a) == [n |-> Abs(a.n), d |-> a.d]

\* the whole part of a, towards zero
QTrunc(a) == IF a.n < 0 THEN 0 - ((0 - a.n) \div a.d) ELSE a.n \div a.d

\* a % b of f64: the remainder has the sign of a
QRem(a, b) == QSub(a, QMul(QInt(QTrunc(QDiv(a, b))), b))

\* f64::consts::PI, as the fraction 22/7, and the constants derived from it
PI == Q(22, 7)
FRAC_PI_2 == QDiv(PI, QInt(2))
TAU == QMul(PI, QInt(2))

\* f64::MIN_POSITIVE: f64's addition absorbs it into any sum the model forms
\* that is not 0
MIN_POSITIVE == Q(1, 1073741824)

AddMinPositive(a) == IF a.n = 0 THEN MIN_POSITIVE ELSE a

\* The quarter turn an angle is, 0..3; cos and sin are taken of quarter turns only.
Quarter(a) ==
    LET r == QRem(a, TAU)
        t == IF r.n < 0 THEN QAdd(r, TAU) ELSE r
    IN  QDiv(t, FRAC_PI_2)

IsQuarter(a) == Quarter(a).d = 1

\* the cosines and the sines of the quarter turns 0..3
CosOfQuarter == <<1, 0, -1, 0>>
SinOfQuarter == <<0, 1, 0, -1>>

\* f64::cos
Cos(a) == QInt(CosOfQuarter[Quarter(a).n + 1])

\* f64::sin
Sin(a) == QInt(SinOfQuarter[Quarter(a).n + 1])

\* f64::to_radians
ToRadians(deg) == QMul(deg, QDiv(PI, QInt(180)))

\* lines 143-151
NormalizeAngle(angle, normalizer) ==
    LET r == QRem(angle, normalizer)
    IN  IF r.n < 0 THEN QAdd(normalizer, r) ELSE r

\* lines 153-161
DifferenceBetweenAngles(angle1, angle2, normalizer) ==
    LET diff == QAbs(QSub(NormalizeAngle(angle1, normalizer),
                          NormalizeAngle(angle2, normalizer)))
    IN  IF QLt(QDiv(normalizer, QInt(2)), diff) THEN QSub(normalizer, diff) ELSE diff

\* A Shading's color is a u32, 0xRRGGBBWW; it is modelled by its four bytes
\* <<R, G, B, W>>, and (color >> shift) & 0xFF by the byte at that shift.
ColorByte(color, shift) == color[4 - (shift \div 8)]

\* lines 87-110: the illumination of one shading
Value(shading, aspect, slope) ==
    LET m == shading.method
    IN  CASE m.kind = "Igor" ->
                LET aspect_diff == DifferenceBetweenAngles(
                        aspect,
                        QSub(QMul(PI, Q(3, 2)), ToRadians(m.azimuth)),
                        QMul(PI, QInt(2)))
                    aspect_strength == QSub(QInt(1), QDiv(aspect_diff, PI))
                IN  QSub(QInt(1), QMul(QMul(slope, QInt(2)), aspect_strength))
          [] m.kind = "Oblique" ->
                LET zenith == QSub(FRAC_PI_2, m.altitude)
                IN  QAdd(QMul(Cos(zenith), Cos(slope)),
                         QMul(QMul(Sin(zenith), Sin(slope)),
                              Cos(QSub(m.azimuth, aspect))))
          [] m.kind = "Slope" ->
                LET zenith == QSub(FRAC_PI_2, m.altitude)
                IN  QAdd(QMul(Cos(zenith), Cos(slope)), QMul(Sin(zenith), Sin(slope)))

ModMutant(shading, aspect, slope) ==
    QMul(Q(ColorByte(shading.color, 0), 255), Value(shading, aspect, slope))

\* line 112
Mod(shading, aspect, slope) ==
    QMul(Q(ColorByte(shading.color, 0), 255),
         QSub(QInt(1), Value(shading, aspect, slope)))

RECURSIVE QSum(_)
QSum(qs) == IF qs = <<>> THEN QInt(0) ELSE QAdd(Head(qs), QSum(Tail(qs)))

RECURSIVE QProduct(_)
QProduct(qs) == IF qs = <<>> THEN QInt(1) ELSE QMul(Head(qs), QProduct(Tail(qs)))

LightenMutant(value, alpha) == value

\* line 131
Lighten(value, alpha) ==
    QAdd(value, QMul(QSub(QInt(1), value), QSub(QInt(1), alpha)))

\* line 133: (value * 255.0).clamp(0.0, 255.0) as u8
ToByte(value) ==
    LET v == QMul(value, QInt(255))
    IN  IF v.n < 0 THEN 0 ELSE IF QLt(QInt(255), v) THEN 255 ELSE QTrunc(v)

\* lines 76-141
Shade(aspect, slope, defs, con, bri) ==
    LET mods == [i \in 1..Len(defs) |-> Mod(defs[i], aspect, slope)]
        norm == AddMinPositive(QSum(mods))
        alpha == QSub(QInt(1), QProduct([i \in 1..Len(defs) |-> QSub(QInt(1), mods[i])]))
        compute_channel(shift) ==
            LET sum == QSum([i \in 1..Len(defs) |->
                            QDiv(QMul(mods[i], QInt(ColorByte(defs[i].color, shift))),
                                 QInt(255))])
                value == QAdd(QAdd(QMul(con, QSub(QDiv(sum, norm), Q(1, 2))), Q(1, 2)),
                              bri)
            IN  ToByte(Lighten(value, alpha))
    IN  [k \in 1..3 |-> compute_channel(32 - 8 * k)]

\* ----------------------------------------------------- the inputs of shade
MaxShadings == 2     \* the longest list of shadings drawn

Igor(azimuth) == [kind |-> "Igor", azimuth |-> azimuth]
Oblique(azimuth, altitude) == [kind |-> "Oblique", azimuth |-> azimuth, altitude |-> altitude]
SlopeMethod(altitude) == [kind |-> "Slope", altitude |-> altitude]

Methods ==
    { Igor(QInt(315)), Oblique(PI, QInt(0)), SlopeMethod(FRAC_PI_2), SlopeMethod(QInt(0)) }

Rgbs == { <<0, 0, 0>>, <<255, 102, 51>>, <<255, 255, 255>> }

Weights == {0, 102, 204, 255}

Shadings ==
    {[method |-> m, color |-> <<c[1], c[2], c[3], w>>] : m \in Methods, c \in Rgbs, w \in Weights}

\* The shadings that lists of more than one are drawn from.
ListShadings ==
    { [method |-> Igor(QInt(315)), color |-> <<0, 0, 0, 204>>],
      [method |-> SlopeMethod(QInt(0)), color |-> <<255, 102, 51, 102>>],
      [method |-> Oblique(PI, QInt(0)), color |-> <<255, 255, 255, 255>>] }

ShadingLists ==
    [1..1 -> Shadings] \cup UNION {[1..k -> ListShadings] : k \in 2..MaxShadings}

AspectChoices == {QInt(0), FRAC_PI_2, PI, QMul(PI, Q(3, 2))}
SlopeChoices == {QInt(0), Q(1, 2), FRAC_PI_2}

\* cos and sin are modelled on the quarter turns: a list with an Oblique or a
\* Slope shading is drawn with a slope that is one.
Drawable(defs, slope) ==
    IsQuarter(slope) \/ \A i \in 1..Len(defs) : defs[i].method.kind = "Igor"

ShadeInit ==
    /\ aspect_rad \in AspectChoices
    /\ slope_rad \in SlopeChoices
    /\ shadings \in ShadingLists
    /\ Drawable(shadings, slope_rad)
    /\ contrast \in {QInt(1), QInt(2)}
    /\ brightness \in {QInt(0), Q(1, 5)}
    /\ spc = "call"
    /\ pixel = <<>>
    /\ whole = <<>>

\* The shading with half the weight.
Halved(shading) ==
    [shading EXCEPT !.color = <<@[1], @[2], @[3], @[4] \div 2>>]

\* shade is called and returns
CallShade ==
    /\ UNCHANGED notShade
    /\ spc = "call"
    /\ pixel' = Shade(aspect_rad, slope_rad, shadings, contrast, brightness)
    /\ spc' = "done"
    /\ UNCHANGED <<aspect_rad, slope_rad, shadings, contrast, brightness, whole>>

\* The caller replaces the one shading of the list, of an even weight, by two
\* copies of half its weight, and calls shade again.
SplitShading ==
    /\ UNCHANGED notShade
    /\ spc = "done"
    /\ whole = <<>>
    /\ Len(shadings) = 1
    /\ shadings[1].color[4] % 2 = 0
    /\ whole' = pixel
    /\ shadings' = <<Halved(shadings[1]), Halved(shadings[1])>>
    /\ pixel' = <<>>
    /\ spc' = "call"
    /\ UNCHANGED <<aspect_rad, slope_rad, contrast, brightness>>

ShadeNext ==
    \/ CallShade
    \/ SplitShading

ShadeIdle ==
    /\ aspect_rad = 0
    /\ slope_rad = 0
    /\ shadings = <<>>
    /\ contrast = 0
    /\ brightness = 0
    /\ spc = "idle"
    /\ pixel = <<>>
    /\ whole = <<>>

Init == ReadInit /\ HillIdle /\ ShadeIdle

Spec == Init /\ [][Next]_vars

InitHill == ReadIdle /\ HillInit /\ ShadeIdle

SpecHill == InitHill /\ [][HillNext]_vars

InitShade == ReadIdle /\ HillIdle /\ ShadeInit

SpecShade == InitShade /\ [][ShadeNext]_vars

\* ------------------------------------------------------ claims about read()
TileIndices == 1..Len(tile_metas)

InBuffer(i, p) == \E k \in 1..Len(points[i]) : points[i][k] = p

\* The position, in the working CRS, of a record.
Position(r) == Convert(r.x, r.y)

\* The records of the matched files, as <<file, index>>.
MatchedRecords ==
    UNION {{<<f, k>> : k \in 1..Len(files[f].points)} : f \in Matched(bbox_8353)}

RecordAt(fk) == files[fk[1]].points[fk[2]]

\* C1: every point stored in a tile's buffer lies inside that tile's buffered
\* bbox, in every state of read().
C1_NoFalseAcceptance ==
    \A i \in TileIndices : \A k \in 1..Len(points[i]) :
        Contains(tile_metas[i].bbox, points[i][k].position[1], points[i][k].position[2])

\* A tile holds a point of its buffer zone: inside its bbox, outside its native bounds.
C1_Witness ==
    \E i \in TileIndices : \E k \in 1..Len(points[i]) :
        ~Contains(Bounds(tile_metas[i].tile),
                  points[i][k].position[1], points[i][k].position[2])

\* C2 as claimed: when read() has returned, every ground point of a matched file
\* whose reprojected position lies in two tiles' buffered bboxes is in both buffers.
C2_Original ==
    (pc = "returned" /\ options.source = "LazIndexDb") =>
        \A fk \in MatchedRecords : \A i, j \in TileIndices :
            LET r == RecordAt(fk)
                p == Position(r)
            IN  (/\ i # j
                 /\ r.ok
                 /\ r.class = "ground"
                 /\ Contains(tile_metas[i].bbox, p.x, p.y)
                 /\ Contains(tile_metas[j].bbox, p.x, p.y))
                => InBuffer(i, PointWithHeight(r)) /\ InBuffer(j, PointWithHeight(r))

\* C2 as amended: when read() has returned, every ground point of a matched file
\* that lies inside the archive-CRS query box, and whose reprojected position lies
\* inside the working extent and in two tiles' buffered bboxes, is in both buffers.
C2_NoLossInOverlap ==
    (pc = "returned" /\ options.source = "LazIndexDb") =>
        \A fk \in MatchedRecords : \A i, j \in TileIndices :
            LET r == RecordAt(fk)
                p == Position(r)
            IN  (/\ i # j
                 /\ r.ok
                 /\ r.class = "ground"
                 /\ Contains(bbox_8353, r.x, r.y)
                 /\ Contains(options.bbox, p.x, p.y)
                 /\ Contains(tile_metas[i].bbox, p.x, p.y)
                 /\ Contains(tile_metas[j].bbox, p.x, p.y))
                => InBuffer(i, PointWithHeight(r)) /\ InBuffer(j, PointWithHeight(r))

\* read() has returned with one point in the buffers of two tiles.
C2_Witness ==
    /\ pc = "returned"
    /\ \E i, j \in TileIndices :
        /\ i # j
        /\ \E k \in 1..Len(points[i]) : InBuffer(j, points[i][k])

\* How often tile i's buffer holds p, and how often the matched files' streams
\* hold a record that read() is to append to tile i as p.
Held(i, p) == Cardinality({k \in 1..Len(points[i]) : points[i][k] = p})

Due(i, p) ==
    Cardinality({fk \in MatchedRecords :
        LET r == RecordAt(fk)
            q == Position(r)
        IN  /\ r.ok
            /\ r.class = "ground"
            /\ Contains(bbox_8353, r.x, r.y)
            /\ Contains(options.bbox, q.x, q.y)
            /\ Contains(tile_metas[i].bbox, q.x, q.y)
            /\ [position |-> <<q.x, q.y>>, height |-> r.z] = p})

PointValues == {PointWithHeight(r) : r \in PointChoices}

\* C3: the multiset of points in every tile's buffer when read() returns is fixed
\* by the matched files' streams, whatever the interleaving of the workers and
\* whichever worker read which file; no push is lost and none is duplicated.
C3_ContentOrderIndependent ==
    pc = "returned" =>
        \A i \in TileIndices : \A p \in PointValues : Held(i, p) = Due(i, p)

\* read() has returned, and a tile's buffer holds the second file's point before
\* the first file's: the order is the workers', the content is the files'.
C3_Witness ==
    /\ pc = "returned"
    /\ \E f, g \in 1..Len(files) : \E i \in TileIndices :
        /\ f < g
        /\ Len(files[f].points) > 0
        /\ Len(files[g].points) > 0
        /\ Len(points[i]) > 1
        /\ points[i][1] = PointWithHeight(files[g].points[1])
        /\ points[i][1] # PointWithHeight(files[f].points[1])

Appending(w) == wpc[w] \in {"push", "store"}

\* C4: at most one worker is inside the append of a tile's buffer, and it is the
\* holder of that tile's lock; a worker holds no lock but that of the tile it is
\* appending to, so none while it acquires one; and a worker waiting for a tile's
\* lock waits for a worker that is appending to that same tile.
C4_PerTileSerialization ==
    /\ \A i \in TileIndices :
        Cardinality({w \in Workers : Appending(w) /\ wtile[w] = i}) <= 1
    /\ \A w \in Workers : Appending(w) => lock[wtile[w]] = w
    /\ \A w \in Workers : \A i \in TileIndices :
        lock[i] = w => Appending(w) /\ wtile[w] = i
    /\ \A w \in Workers :
        (wpc[w] = "lock" /\ lock[wtile[w]] # NoWorker) =>
            LET v == lock[wtile[w]]
            IN  v # w /\ Appending(v) /\ wtile[v] = wtile[w]

\* A worker waits for the lock of the tile another worker is appending to.
C4_Witness ==
    \E w, v \in Workers :
        /\ w # v
        /\ wpc[w] = "lock"
        /\ lock[wtile[w]] = v
        /\ wpc[v] = "store"

\* A matched file cannot be opened, or one of its records cannot be decoded.
SomeFailure ==
    \E f \in Matched(bbox_8353) :
        \/ ~files[f].openable
        \/ \E k \in 1..Len(files[f].points) : ~files[f].points[k].ok

\* C5: if a matched file cannot be opened or a record of one cannot be decoded,
\* read() never returns a tile list, and a worker that met the failure has
\* panicked: it has not gone on to the next record or file.
C5_FailureAborts ==
    /\ (pc = "returned" /\ options.source = "LazIndexDb") => ~SomeFailure
    /\ \A w \in Workers : wpc[w] = "panicked" => panic /\ pc # "returned"

\* read() has ended in the panic of one worker, raised while another was appending,
\* and what was appended is in no returned tile list.
C5_Witness ==
    /\ pc = "panicked"
    /\ SomeFailure
    /\ \E i \in TileIndices : Len(points[i]) > 0
    /\ \E w \in Workers : wpc[w] = "panicked"

StrictlyInside(inner, outer) ==
    /\ outer.min_x < inner.min_x
    /\ outer.min_y < inner.min_y
    /\ outer.max_x > inner.max_x
    /\ outer.max_y > inner.max_y

ExtendedBy(inner, outer, num, den) ==
    /\ (inner.min_x - outer.min_x) * den = num
    /\ (inner.min_y - outer.min_y) * den = num
    /\ (outer.max_x - inner.max_x) * den = num
    /\ (outer.max_y - inner.max_y) * den = num

\* C6 as claimed: every tile's bbox is its native bounds extended on all four
\* sides by buffer / pixels_per_meter, and strictly contains the native bounds.
C6_Original ==
    \A i \in TileIndices :
        /\ ExtendedBy(Bounds(tile_metas[i].tile), tile_metas[i].bbox,
                      options.buffer * UnitsPerMeter, options.pixels_per_meter)
        /\ StrictlyInside(Bounds(tile_metas[i].tile), tile_metas[i].bbox)

\* C6 as amended: every tile's bbox is its native bounds extended on all four
\* sides by buffer / pixels_per_meter; it contains the native bounds, strictly
\* when the buffer is not 0 pixels, and equals them when it is.
C6_BufferedBBox ==
    \A i \in TileIndices :
        LET native == Bounds(tile_metas[i].tile)
            bbox == tile_metas[i].bbox
        IN  /\ ExtendedBy(native, bbox,
                          options.buffer * UnitsPerMeter, options.pixels_per_meter)
            /\ Contains(bbox, native.min_x, native.min_y)
            /\ Contains(bbox, native.max_x, native.max_y)
            /\ options.buffer > 0 => StrictlyInside(native, bbox)
            /\ options.buffer = 0 => bbox = native

\* The grid is built with a buffer that is a fraction of a metre.
C6_Witness ==
    /\ Len(tile_metas) > 1
    /\ options.buffer > 0
    /\ options.pixels_per_meter > 1

\* ------------------------------------------------- claims: shading.rs
\* The shading definition was presented whole, then as two half-weight copies,
\* and shade has returned for both.
SplitDone == spc = "done" /\ whole # <<>>

\* C7, as stated: shade with a definition of weight byte 2w returns the same
\* pixel as shade with two copies of it of weight byte w each.
C7_Original == SplitDone => pixel = whole

\* C7, amended: the two pixels are the same whenever the definition's mod is 0,
\* that is when its weight byte is 0 or its illumination value is 1.
C7_SplitOfZeroMod ==
    (/\ SplitDone
     /\ \/ shadings[1].color[4] = 0
        \/ Value(shadings[1], aspect_rad, slope_rad) = QInt(1))
    => pixel = whole

C7_Witness ==
    /\ SplitDone
    /\ shadings[1].color[4] > 0
    /\ Value(shadings[1], aspect_rad, slope_rad) = QInt(1)

\* The scenario of C8: one Slope definition, altitude pi/2, weight byte 255,
\* at slope 0 with contrast 1 and brightness 0; shade has returned.
SunStraightUp ==
    /\ spc = "done"
    /\ Len(shadings) = 1
    /\ shadings[1].method = SlopeMethod(FRAC_PI_2)
    /\ shadings[1].color[4] = 255
    /\ slope_rad = QInt(0)
    /\ contrast = QInt(1)
    /\ brightness = QInt(0)

\* C8, as stated: in the scenario shade returns the definition's own colour
\* bytes R, G, B, for every colour.
C8_Original ==
    SunStraightUp
    => pixel = <<shadings[1].color[1], shadings[1].color[2], shadings[1].color[3]>>

\* C8, amended: in the scenario shade returns white, (255, 255, 255), for
\* every colour.
C8_White == SunStraightUp => pixel = <<255, 255, 255>>

C8_Witness ==
    /\ SunStraightUp
    /\ shadings[1].color = <<255, 102, 51, 255>>

\* 0.0 or -0.0, as f64 compares them to 0.0
IsZero(a) == ~a.nan /\ a.s16 = 0

\* C9: of a grid of constant value, every interior cell gets slope = 0 and
\* aspect = 0.
C9_FlatGridZeroAspect ==
    elevation = Plane(rows, cols, 0, 0)
    => \A k \in 1..Len(written) :
          /\ IsZero(hillshade[written[k]][3])
          /\ IsZero(hillshade[written[k]][2])

Interior(p) == p[1] \in 1..(cols - 2) /\ p[2] \in 1..(rows - 2)

\* C10: compute_hillshade writes one pixel for each interior cell, every
\* written position is an interior position of the image, and no pixel of the
\* border is written.
C10_InteriorPixelsOnly ==
    hpc = "returned"
    => /\ Len(written) = (rows - 2) * (cols - 2)
       /\ \A j, k \in 1..Len(written) : j # k => written[j] # written[k]
       /\ \A k \in 1..Len(written) : Interior(written[k])
       /\ \A p \in DOMAIN hillshade :
             ~Interior(p) => \A k \in 1..Len(written) : written[k] # p

====
